---- MODULE Spec2Model ----
(***************************************************************************)
(* Model of viseron/components/nvr/zone.py: class Zone.                    *)
(*                                                                         *)
(* A Zone is built once from its configuration (polygon, per-label         *)
(* filters).  filter_zone(shared_frame, objects) walks a detection batch,  *)
(* keeps the detections that have a filter for their label, pass it and    *)
(* lie in the polygon, raises flags on them, and hands the list to         *)
(* objects_in_zone_setter, which stores it and dispatches an event when it *)
(* differs from the stored list.                                           *)
(*                                                                         *)
(* Detections are heap objects: a list holds object identities, the heap   *)
(* holds each object's attributes and its two mutable flags, so that two   *)
(* zones evaluating one batch alias the same objects.                      *)
(***************************************************************************)
EXTENDS Naturals, Sequences, FiniteSets

\* ---------------------------------------------------------------- bounds

\* Longest detection batch the detector hands over in one cycle.
MaxBatch == 2

\* ------------------------------------------------------- the environment

\* The Zone instances of the camera.
Zones == {"zoneA", "zoneB"}

\* No zone: the value of self while no call is in progress.
NoZone == "none"

\* The frame reference of the current cycle.  Nothing keeps a frame once its
\* cycle is over, so the next frame may come at the same identity.
Frame == "frame"

\* nvr_config and zone_config as handed to Zone.__init__.  zoneA is the
\* 100x100 square with a non-triggering "person" filter and no "car" filter,
\* zoneB the 200x100 rectangle with a triggering "person" filter and a "car"
\* filter.
camera_config == [identifier |-> "cam", resolution |-> <<200, 100>>]

zone_config ==
    [z \in Zones |->
        IF z = "zoneA"
        THEN [name |-> "yard",
              coordinates |-> << [x |-> 0, y |-> 0], [x |-> 100, y |-> 0],
                                 [x |-> 100, y |-> 100], [x |-> 0, y |-> 100] >>,
              labels |-> << [label |-> "person", confidence |-> 1,
                             trigger_recorder |-> FALSE] >>]
        ELSE [name |-> "door",
              coordinates |-> << [x |-> 0, y |-> 0], [x |-> 200, y |-> 0],
                                 [x |-> 200, y |-> 100], [x |-> 0, y |-> 100] >>,
              labels |-> << [label |-> "person", confidence |-> 1,
                             trigger_recorder |-> TRUE],
                            [label |-> "car", confidence |-> 1,
                             trigger_recorder |-> FALSE] >>]]

\* What the detector can report: label, confidence and the point that is
\* tested against the polygon.
Detections ==
    { [label |-> "person", confidence |-> 2, pos |-> <<50, 50>>],
      [label |-> "person", confidence |-> 2, pos |-> <<150, 50>>],
      [label |-> "car",    confidence |-> 1, pos |-> <<50, 50>>] }

\* All batches the detector can produce: up to MaxBatch detections, each
\* reported once.
Batches ==
    { b \in UNION { [1 .. n -> Detections] : n \in 0 .. MaxBatch } :
        \A j, k \in DOMAIN b : j # k => b[j] # b[k] }

VARIABLES
    \* Zone fields
    _coordinates,        \* zone -> polygon vertices
    _camera_resolution,  \* zone -> <<width, height>>
    _camera,             \* zone -> the camera object (identifier, resolution)
    _name,               \* zone -> name
    _object_filters,     \* zone -> (label -> Filter)
    _objects_in_zone,    \* zone -> stored list of object identities
    \* the caller's side
    heap,                \* object identity -> DetectedObject
    objects,             \* the batch of the current cycle (list of identities)
    shared_frame,        \* the frame of the current cycle
    \* the call in progress
    pc,                  \* "idle", "for", "dispatch_event", "done", "raised"
    self,                \* the zone filter_zone runs on
    i,                   \* position of the for loop in objects
    objects_in_zone,     \* filter_zone's local list
    ret,                 \* what filter_zone returned
    \* observations
    calls,               \* capability invocations of the call, in order
    published,           \* dispatch_event invocations of the call, in order
    pre_heap,            \* heap at entry of the call
    pre_stored,          \* _objects_in_zone[self] at entry of the call
    prev,                \* last[self] at entry of the call
    last,                \* zone -> the list of its latest call that computed one
    announced,           \* zone -> the latest event it handed to dispatch_event
    progress             \* zone -> how far into the current batch its loop got

config == << _coordinates, _camera_resolution, _camera, _name, _object_filters >>
caller == << heap, objects, shared_frame >>
callframe == << pc, self, i, objects_in_zone, ret >>
observations == << calls, published, pre_heap, pre_stored, prev, last,
                   announced, progress >>
vars == << config, _objects_in_zone, caller, callframe, observations >>

\* ------------------------------------------------- external capabilities

Range(s) == { s[k] : k \in DOMAIN s }

\* helpers.generate_numpy_from_coordinates: the configured {x, y} points as
\* an array of [x, y] rows, in the configured order.
generate_numpy_from_coordinates(points) ==
    [k \in 1 .. Len(points) |-> << points[k].x, points[k].y >>]

\* helpers.filter.Filter: the capability built from one label's
\* configuration; it keeps the confidence threshold and trigger_recorder.
Filter(camera_resolution, object_filter, mask) ==
    [confidence |-> object_filter.confidence,
     trigger_recorder |-> object_filter.trigger_recorder]

\* Filter.filter_object: the significance test.
filter_object(flt, obj) == obj.confidence > flt.confidence

\* helpers.object_in_polygon, for the axis-parallel rectangles configured
\* here: the object's point lies between the extreme vertices.
object_in_polygon(resolution, obj, coordinates) ==
    LET xs == { coordinates[k][1] : k \in DOMAIN coordinates }
        ys == { coordinates[k][2] : k \in DOMAIN coordinates }
    IN  /\ \E lo \in xs, hi \in xs : lo <= obj.pos[1] /\ obj.pos[1] <= hi
        /\ \E lo \in ys, hi \in ys : lo <= obj.pos[2] /\ obj.pos[2] <= hi

\* DetectedObject(...): a fresh detection; both flags start false.
DetectedObject(d) ==
    [label |-> d.label, confidence |-> d.confidence, pos |-> d.pos,
     relevant |-> FALSE, trigger_recorder |-> FALSE]

\* What DetectedObject.__eq__ compares: the detection's attributes.
Value(obj) == [label |-> obj.label, confidence |-> obj.confidence, pos |-> obj.pos]

DetEq(a, b) == Value(a) = Value(b)

\* list.__eq__ on two lists of detections: same length, and element by
\* element the same object or objects that compare equal.
ListEq(h, a, b) ==
    /\ Len(a) = Len(b)
    /\ \A k \in 1 .. Len(a) : a[k] = b[k] \/ DetEq(h[a[k]], h[b[k]])

\* The attribute records of a list of identities.
ValuesOf(h, a) == [k \in 1 .. Len(a) |-> Value(h[a[k]])]

\* ---------------------------------------------------------- construction

\* The registry giving every label the detector reports a filter, a
\* permissive one where none is configured.
ObjectFilters_Default(labels, camera_resolution, mask) ==
    [l \in { d.label : d \in Detections } |->
        IF \E k \in DOMAIN labels : labels[k].label = l
        THEN Filter(camera_resolution,
                    labels[CHOOSE k \in DOMAIN labels : labels[k].label = l], mask)
        ELSE [confidence |-> 0, trigger_recorder |-> FALSE]]

\* Zone.__init__, the loop over zone_config[CONFIG_ZONE_LABELS]: one Filter
\* per label, a later entry of a label replacing an earlier one.
ObjectFilters(labels, camera_resolution, mask) ==
    LET F[k \in 0 .. Len(labels)] ==
            IF k = 0 THEN << >>
            ELSE [l \in (DOMAIN F[k - 1]) \cup { labels[k].label } |->
                    IF l = labels[k].label
                    THEN Filter(camera_resolution, labels[k], mask)
                    ELSE F[k - 1][l]]
    IN  F[Len(labels)]

\* EVENT_OBJECTS_IN_ZONE.format(camera_identifier=..., zone_name=...): the
\* topic's path segments.
EVENT_OBJECTS_IN_ZONE(camera_identifier, zone_name) ==
    << camera_identifier, "zone", zone_name, "objects" >>

\* Return values of filter_zone.
Pending == [kind |-> "pending", value |-> << >>]
None == [kind |-> "None", value |-> << >>]

\* Summaries of calls and events before there is any.
NoCall == [computed |-> FALSE, accepted |-> << >>]

\* A zone that has not handed any event to dispatch_event.
NoEvent == [any |-> FALSE, objects |-> << >>, failed |-> FALSE]

Init ==
    /\ _coordinates = [z \in Zones |->
            generate_numpy_from_coordinates(zone_config[z].coordinates)]
    /\ _camera = [z \in Zones |-> camera_config]
    /\ _camera_resolution = [z \in Zones |-> camera_config.resolution]
    /\ _name = [z \in Zones |-> zone_config[z].name]
    /\ _objects_in_zone = [z \in Zones |-> << >>]
    /\ _object_filters = [z \in Zones |->
            ObjectFilters(zone_config[z].labels, camera_config.resolution, << >>)]
    /\ heap = << >>
    /\ objects = << >>
    /\ shared_frame = Frame
    /\ pc = "idle"
    /\ self = NoZone
    /\ i = 0
    /\ objects_in_zone = << >>
    /\ ret = Pending
    /\ calls = << >>
    /\ published = << >>
    /\ pre_heap = << >>
    /\ pre_stored = << >>
    /\ prev = NoCall
    /\ last = [z \in Zones |-> NoCall]
    /\ announced = [z \in Zones |-> NoEvent]
    /\ progress = [z \in Zones |-> 0]

\* No call is in progress.
Quiet == pc \in {"idle", "done", "raised"}

\* ------------------------------------------------------------ the caller

\* The objects the zones hold, in the order zoneA's list then zoneB's.
Held == _objects_in_zone["zoneA"] \o _objects_in_zone["zoneB"]

\* The place of a held object among the held ones, by first occurrence.
Rank(id) ==
    LET first(y) == CHOOSE k \in 1 .. Len(Held) :
                        Held[k] = y /\ \A j \in 1 .. (k - 1) : Held[j] # y
    IN  Cardinality({ y \in Range(Held) : first(y) <= first(id) })

\* A detection cycle: the detector reports a batch of fresh objects for the
\* next frame.  Objects no zone holds any more are collected; identities are
\* opaque, so the held objects are renumbered 1 .. m in the order of Held
\* (every list keeps its objects and their order) and the fresh ones follow.
Detect(b) ==
    /\ Quiet
    /\ LET m == Cardinality(Range(Held))
       IN  /\ objects' = [k \in 1 .. Len(b) |-> m + k]
           /\ heap' = [id \in 1 .. (m + Len(b)) |->
                         IF id <= m
                         THEN heap[CHOOSE y \in Range(Held) : Rank(y) = id]
                         ELSE DetectedObject(b[id - m])]
           /\ _objects_in_zone' = [z \in Zones |->
                 [k \in 1 .. Len(_objects_in_zone[z]) |-> Rank(_objects_in_zone[z][k])]]
    /\ pre_heap' = heap'
    /\ shared_frame' = Frame
    /\ pc' = "idle"
    /\ self' = NoZone
    /\ i' = 0
    /\ objects_in_zone' = << >>
    /\ ret' = Pending
    /\ calls' = << >>
    /\ published' = << >>
    /\ pre_stored' = << >>
    /\ prev' = NoCall
    /\ progress' = [z \in Zones |-> 0]
    /\ UNCHANGED << config, last, announced >>

\* ------------------------------------------------------------ filter_zone

\* Zone.filter_zone, entry: objects_in_zone = [] and the loop starts.
filter_zone(z) ==
    /\ Quiet
    /\ self' = z
    /\ objects_in_zone' = << >>
    /\ i' = 1
    /\ pc' = "for"
    /\ ret' = Pending
    /\ calls' = << >>
    /\ published' = << >>
    /\ pre_heap' = heap
    /\ pre_stored' = _objects_in_zone[z]
    /\ prev' = last[z]
    /\ UNCHANGED << config, _objects_in_zone, caller, last, announced, progress >>

\* filter_zone ending with "return objects_in_zone".
filter_zone_return_List == [kind |-> "list", value |-> objects_in_zone]

\* What filter_zone returns: it has no return statement.
filter_zone_return == None

\* A lookup that enters a permissive filter for a label it does not find.
Lookup_Insert(filters, label) ==
    [l \in (DOMAIN filters) \cup { label } |->
        IF l \in DOMAIN filters THEN filters[l]
        ELSE [confidence |-> 0, trigger_recorder |-> FALSE]]

\* The filter mapping after self._object_filters.get(label): a lookup leaves
\* the mapping as it is.
Lookup(filters, label) == filters

\* Where a capability may fail during one loop iteration.
Failures == {"none", "filter_object", "object_in_polygon"}

\* One invocation of a capability on an object, with what it answered.
Invocation(what, obj, answer) == [what |-> what, obj |-> obj, answer |-> answer]

\* The loop condition without the containment test.
Examine_NoPolygon(z, obj, fail) ==
    LET o == heap[obj]
        filters == _object_filters[z]
        get == Invocation("get", obj, IF o.label \in DOMAIN filters THEN "True" ELSE "None")
    IN  IF o.label \notin DOMAIN filters
        THEN [calls |-> << get >>, verdict |-> "skip"]
        ELSE IF fail = "filter_object"
        THEN [calls |-> << get, Invocation("filter_object", obj, "raise") >>,
              verdict |-> "raise"]
        ELSE IF ~ filter_object(filters[o.label], o)
        THEN [calls |-> << get, Invocation("filter_object", obj, "False") >>,
              verdict |-> "skip"]
        ELSE [calls |-> << get, Invocation("filter_object", obj, "True") >>,
              verdict |-> "accept"]

\* The loop condition without the significance test.
Examine_NoFilter(z, obj, fail) ==
    LET o == heap[obj]
        filters == _object_filters[z]
        get == Invocation("get", obj, IF o.label \in DOMAIN filters THEN "True" ELSE "None")
    IN  IF o.label \notin DOMAIN filters
        THEN [calls |-> << get >>, verdict |-> "skip"]
        ELSE IF fail = "object_in_polygon"
        THEN [calls |-> << get, Invocation("object_in_polygon", obj, "raise") >>,
              verdict |-> "raise"]
        ELSE IF ~ object_in_polygon(_camera_resolution[z], o, _coordinates[z])
        THEN [calls |-> << get, Invocation("object_in_polygon", obj, "False") >>,
              verdict |-> "skip"]
        ELSE [calls |-> << get, Invocation("object_in_polygon", obj, "True") >>,
              verdict |-> "accept"]

\* The loop condition with the containment test ahead of the filter test.
Examine_PolygonFirst(z, obj, fail) ==
    LET o == heap[obj]
        filters == _object_filters[z]
        get == Invocation("get", obj, IF o.label \in DOMAIN filters THEN "True" ELSE "None")
        inside == object_in_polygon(_camera_resolution[z], o, _coordinates[z])
        polygon == Invocation("object_in_polygon", obj, IF inside THEN "True" ELSE "False")
    IN  IF o.label \notin DOMAIN filters
        THEN [calls |-> << get >>, verdict |-> "skip"]
        ELSE IF fail = "object_in_polygon"
        THEN [calls |-> << get, Invocation("object_in_polygon", obj, "raise") >>,
              verdict |-> "raise"]
        ELSE IF ~ inside
        THEN [calls |-> << get, polygon >>, verdict |-> "skip"]
        ELSE IF fail = "filter_object"
        THEN [calls |-> << get, polygon, Invocation("filter_object", obj, "raise") >>,
              verdict |-> "raise"]
        ELSE IF ~ filter_object(filters[o.label], o)
        THEN [calls |-> << get, polygon, Invocation("filter_object", obj, "False") >>,
              verdict |-> "skip"]
        ELSE [calls |-> << get, polygon, Invocation("filter_object", obj, "True") >>,
              verdict |-> "accept"]

\* The condition of the loop body for object obj of zone z, evaluated left
\* to right: the capabilities it invokes, in order, and its verdict.
Examine(z, obj, fail) ==
    LET o == heap[obj]
        filters == _object_filters[z]
        get == Invocation("get", obj, IF o.label \in DOMAIN filters THEN "True" ELSE "None")
    IN  IF o.label \notin DOMAIN filters
        THEN [calls |-> << get >>, verdict |-> "skip"]
        ELSE IF fail = "filter_object"
        THEN [calls |-> << get, Invocation("filter_object", obj, "raise") >>,
              verdict |-> "raise"]
        ELSE IF ~ filter_object(filters[o.label], o)
        THEN [calls |-> << get, Invocation("filter_object", obj, "False") >>,
              verdict |-> "skip"]
        ELSE IF fail = "object_in_polygon"
        THEN [calls |-> << get, Invocation("filter_object", obj, "True"),
                           Invocation("object_in_polygon", obj, "raise") >>,
              verdict |-> "raise"]
        ELSE IF ~ object_in_polygon(_camera_resolution[z], o, _coordinates[z])
        THEN [calls |-> << get, Invocation("filter_object", obj, "True"),
                           Invocation("object_in_polygon", obj, "False") >>,
              verdict |-> "skip"]
        ELSE [calls |-> << get, Invocation("filter_object", obj, "True"),
                           Invocation("object_in_polygon", obj, "True") >>,
              verdict |-> "accept"]

\* trigger_recorder assigned the filter's setting instead of only raised.
Mark_Assign(o, flt) ==
    [o EXCEPT !.relevant = TRUE, !.trigger_recorder = flt.trigger_recorder]

\* The flags of an accepted object: relevant becomes true, trigger_recorder
\* becomes true when the label's filter says so.
Mark(o, flt) ==
    [o EXCEPT !.relevant = TRUE,
              !.trigger_recorder = IF flt.trigger_recorder THEN TRUE ELSE @]

\* The accepted object put in front instead of appended.
Collect_InFront(list, obj) == << obj >> \o list

\* The local list after accepting obj.
Collect(list, obj) == Append(list, obj)

\* The summary of a call that handed list to objects_in_zone_setter.
Summary(list) == [computed |-> TRUE, accepted |-> ValuesOf(heap, list)]

\* The loop of a zone has got through place k of the batch, having got
\* through place n in its earlier calls on this batch.
Reached(n, k) == IF k > n THEN k ELSE n

\* One iteration of a for loop whose body catches the failure of a capability
\* and goes on with the next detection.
ForObj_Swallow ==
    /\ pc = "for"
    /\ i <= Len(objects)
    /\ \E fail \in Failures :
         LET obj == objects[i]
             e == Examine(self, obj, fail)
         IN  /\ fail = "none" \/ e.verdict = "raise"
             /\ calls' = calls \o e.calls
             /\ pc' = "for"
             /\ i' = i + 1
             /\ progress' = [progress EXCEPT ![self] = Reached(@, i)]
             /\ IF e.verdict = "accept"
                THEN /\ heap' = [heap EXCEPT ![obj] =
                            Mark(@, _object_filters[self][heap[obj].label])]
                     /\ objects_in_zone' = Collect(objects_in_zone, obj)
                ELSE UNCHANGED << heap, objects_in_zone >>
    /\ _object_filters' = [_object_filters EXCEPT ![self] =
            Lookup(@, heap[objects[i]].label)]
    /\ UNCHANGED << _coordinates, _camera_resolution, _camera, _name >>
    /\ UNCHANGED << _objects_in_zone, objects, shared_frame, self, ret >>
    /\ UNCHANGED << published, pre_heap, pre_stored, prev, last, announced >>

\* One iteration of the for loop.
ForObj ==
    /\ pc = "for"
    /\ i <= Len(objects)
    /\ \E fail \in Failures :
         LET obj == objects[i]
             e == Examine(self, obj, fail)
         IN  /\ fail = "none" \/ e.verdict = "raise"
             /\ calls' = calls \o e.calls
             /\ IF e.verdict = "raise"
                THEN /\ pc' = "raised"
                     /\ UNCHANGED << heap, objects_in_zone, i, progress >>
                ELSE /\ pc' = "for"
                     /\ i' = i + 1
                     /\ progress' = [progress EXCEPT ![self] = Reached(@, i)]
                     /\ IF e.verdict = "accept"
                        THEN /\ heap' = [heap EXCEPT ![obj] =
                                    Mark(@, _object_filters[self][heap[obj].label])]
                             /\ objects_in_zone' = Collect(objects_in_zone, obj)
                        ELSE UNCHANGED << heap, objects_in_zone >>
    /\ _object_filters' = [_object_filters EXCEPT ![self] =
            Lookup(@, heap[objects[i]].label)]
    /\ UNCHANGED << _coordinates, _camera_resolution, _camera, _name >>
    /\ UNCHANGED << _objects_in_zone, objects, shared_frame, self, ret >>
    /\ UNCHANGED << published, pre_heap, pre_stored, prev, last, announced >>

\* ------------------------------------------------ objects_in_zone_setter

\* A setter without the comparison: every list is taken as a change.
Unchanged_Never(new, stored) == FALSE

\* The comparison done on the lists taken as sets of detections.
Unchanged_AnyOrder(new, stored) ==
    /\ Len(new) = Len(stored)
    /\ Range(ValuesOf(heap, new)) = Range(ValuesOf(heap, stored))

\* The comparison done on identities instead of with ==.
Unchanged_ByIdentity(new, stored) == new = stored

\* The comparison that decides whether the membership changed.
Unchanged(new, stored) == ListEq(heap, new, stored)

\* The stored list extended in place instead of replaced.
Store_Extend(stored, z, new) == [stored EXCEPT ![z] = @ \o new]

\* The assignment left out.
Store_Skipped(stored, z, new) == stored

\* The stored lists after the assignment self._objects_in_zone = objects.
Store(stored, z, new) == [stored EXCEPT ![z] = new]

\* The loop is over: objects_in_zone_setter(shared_frame, objects_in_zone)
\* returns at once when the list equals the stored one, and stores it
\* otherwise.
objects_in_zone_setter ==
    /\ pc = "for"
    /\ i > Len(objects)
    /\ IF Unchanged(objects_in_zone, _objects_in_zone[self])
       THEN /\ pc' = "done"
            /\ ret' = filter_zone_return
            /\ last' = [last EXCEPT ![self] = Summary(objects_in_zone)]
            /\ UNCHANGED _objects_in_zone
       ELSE /\ pc' = "dispatch_event"
            /\ _objects_in_zone' = Store(_objects_in_zone, self, objects_in_zone)
            /\ UNCHANGED << ret, last >>
    /\ UNCHANGED << config, caller, self, i, objects_in_zone >>
    /\ UNCHANGED << calls, published, pre_heap, pre_stored, prev >>
    /\ UNCHANGED << announced, progress >>

\* The event handed to dispatch_event, and the stored list a listener finds
\* in the zone when it is handed over.
Event(z, frame, list) ==
    [topic |-> EVENT_OBJECTS_IN_ZONE(_camera[z].identifier, _name[z]),
     data |-> [camera_identifier |-> _camera[z].identifier,
               shared_frame |-> frame,
               zone |-> z,
               objects |-> list],
     stored |-> _objects_in_zone[z]]

\* What is remembered of an event handed to dispatch_event: the detections
\* it carried and whether dispatch_event failed.
Handed(event, fails) ==
    [any |-> TRUE, objects |-> ValuesOf(heap, event.data.objects), failed |-> fails]

\* A dispatch whose failure puts the earlier list back, so that the change is
\* found again by the next call.
dispatch_event_Rollback ==
    /\ pc = "dispatch_event"
    /\ published' = Append(published, Event(self, shared_frame, objects_in_zone))
    /\ \E fails \in BOOLEAN :
         /\ IF fails
            THEN /\ pc' = "raised"
                 /\ _objects_in_zone' = [_objects_in_zone EXCEPT ![self] = pre_stored]
                 /\ UNCHANGED ret
            ELSE /\ pc' = "done"
                 /\ ret' = filter_zone_return
                 /\ UNCHANGED _objects_in_zone
         /\ announced' = [announced EXCEPT ![self] =
                Handed(Event(self, shared_frame, objects_in_zone), fails)]
    /\ last' = [last EXCEPT ![self] = Summary(objects_in_zone)]
    /\ UNCHANGED << config, caller, self, i, objects_in_zone >>
    /\ UNCHANGED << calls, pre_heap, pre_stored, prev, progress >>

\* self._vis.dispatch_event(topic, data), after which both functions return;
\* a failure of the dispatcher leaves through both.
dispatch_event ==
    /\ pc = "dispatch_event"
    /\ published' = Append(published, Event(self, shared_frame, objects_in_zone))
    /\ \E fails \in BOOLEAN :
         /\ IF fails
            THEN /\ pc' = "raised"
                 /\ UNCHANGED ret
            ELSE /\ pc' = "done"
                 /\ ret' = filter_zone_return
         /\ announced' = [announced EXCEPT ![self] =
                Handed(Event(self, shared_frame, objects_in_zone), fails)]
    /\ last' = [last EXCEPT ![self] = Summary(objects_in_zone)]
    /\ UNCHANGED << config, _objects_in_zone, caller, self, i, objects_in_zone >>
    /\ UNCHANGED << calls, pre_heap, pre_stored, prev, progress >>

Next ==
    \/ \E b \in Batches : Detect(b)
    \/ \E z \in Zones : filter_zone(z)
    \/ ForObj
    \/ objects_in_zone_setter
    \/ dispatch_event

Spec == Init /\ [][Next]_vars

\* ============================================================ properties

\* The call on self has computed its list and handed it to the setter.
ListComputed == pc \in {"dispatch_event", "done", "raised"} /\ i > Len(objects)

\* The labels zone z was configured with.
ConfiguredLabels(z) ==
    { zone_config[z].labels[k].label : k \in DOMAIN zone_config[z].labels }

\* C1: when a call on a zone computes a list equal, element by element and in
\* order, to the list the zone's previous call computed, the call publishes
\* no event and leaves objects_in_zone as it found it (so the two calls
\* publish at most the one event of the first).
C1_Idempotent ==
    (ListComputed /\ prev.computed /\ prev.accepted = ValuesOf(heap, objects_in_zone))
        => /\ published = << >>
           /\ _objects_in_zone[self] = pre_stored
           /\ pc # "dispatch_event"

\* C1 happens: a second call saw fresh objects equal to the stored ones.
C1_Witness ==
    /\ pc = "done"
    /\ prev.computed
    /\ objects_in_zone # << >>
    /\ prev.accepted = ValuesOf(heap, objects_in_zone)
    /\ objects_in_zone # _objects_in_zone[self]
    /\ published = << >>

\* C2: after every call that handed its list to the setter, objects_in_zone
\* is value-equal to that list (and to the empty list before any such call);
\* and a step of a call changes a zone's objects_in_zone only by replacing
\* the list of self with the whole list the call computed.
C2_Reflects ==
    [][ /\ Quiet' =>
            \A z \in Zones :
                ValuesOf(heap', _objects_in_zone'[z]) = last'[z].accepted
        /\ ListComputed' /\ pc' # "raised" =>
            ListEq(heap', _objects_in_zone'[self'], objects_in_zone')
        /\ pc' # "idle" =>
            \A z \in Zones :
                _objects_in_zone'[z] # _objects_in_zone[z] =>
                    /\ z = self
                    /\ i > Len(objects)
                    /\ _objects_in_zone'[z] = objects_in_zone
      ]_vars

\* C2 happens: a completed call replaced a non-empty list by another one.
C2_Witness ==
    /\ pc = "done"
    /\ pre_stored # << >>
    /\ _objects_in_zone[self] # << >>
    /\ ValuesOf(heap, _objects_in_zone[self]) # ValuesOf(pre_heap, pre_stored)
    /\ _objects_in_zone[self] = objects_in_zone

\* C3: a call whose list differs from the stored one first stores the list
\* and then hands exactly one event to the dispatcher, on the topic
\* camera/zone/name/objects, carrying the camera identifier, the frame of the
\* call, the zone and the list, the zone already holding that list; no call
\* hands over more than one event.
C3_PublishOnChange ==
    /\ Len(published) <= 1
    /\ (ListComputed /\ ~ ListEq(heap, objects_in_zone, pre_stored)) =>
         /\ _objects_in_zone[self] = objects_in_zone
         /\ pc = "dispatch_event" => published = << >>
         /\ pc \in {"done", "raised"} =>
              /\ Len(published) = 1
              /\ published[1].topic =
                    << camera_config.identifier, "zone", zone_config[self].name, "objects" >>
              /\ published[1].data =
                    [camera_identifier |-> camera_config.identifier,
                     shared_frame |-> shared_frame,
                     zone |-> self,
                     objects |-> objects_in_zone]
              /\ published[1].stored = published[1].data.objects

\* C3 happens: a completed call published its non-empty list.
C3_Witness ==
    /\ pc = "done"
    /\ Len(published) = 1
    /\ published[1].data.objects # << >>
    /\ pre_stored # << >>

\* A detection of the batch qualifies for zone z: its label has a filter, it
\* passes that filter and it lies in the polygon.
Qualifies(z, obj) ==
    /\ heap[obj].label \in DOMAIN _object_filters[z]
    /\ filter_object(_object_filters[z][heap[obj].label], heap[obj])
    /\ object_in_polygon(_camera_resolution[z], heap[obj], _coordinates[z])

\* C4: the accepted list is the subsequence of the batch made of its
\* qualifying detections, in batch order; while the loop runs this holds of
\* the part of the batch already visited.
C4_Subsequence ==
    pc \in {"for", "dispatch_event", "done"} =>
        LET Test(obj) == Qualifies(self, obj)
        IN  objects_in_zone = SelectSeq(SubSeq(objects, 1, i - 1), Test)

\* C4 happens: a batch of two qualifying detections was evaluated.
C4_Witness ==
    /\ pc = "done"
    /\ Len(objects_in_zone) = 2
    /\ objects_in_zone = objects

\* The labels of a list's objects are all configured for zone z.
AllConfigured(z, list) ==
    \A k \in DOMAIN list : heap[list[k]].label \in ConfiguredLabels(z)

\* C5: a detection whose label has no configured filter in a zone is in no
\* list the zone computes, stores or publishes; and a batch of unconfigured
\* labels only, evaluated on a zone that stores the empty list, yields the
\* empty list and publishes nothing.
C5_Unconfigured ==
    /\ \A z \in Zones : AllConfigured(z, _objects_in_zone[z])
    /\ self \in Zones => AllConfigured(self, objects_in_zone)
    /\ \A n \in DOMAIN published :
         AllConfigured(published[n].data.zone, published[n].data.objects)
    /\ ( /\ ListComputed
         /\ pre_stored = << >>
         /\ \A k \in DOMAIN objects : heap[objects[k]].label \notin ConfiguredLabels(self) )
       => /\ objects_in_zone = << >>
          /\ published = << >>
          /\ pc = "done"

\* C5 happens: a zone storing nothing evaluated a batch of a label it has no
\* filter for, the detection lying inside its polygon.
C5_Witness ==
    /\ pc = "done"
    /\ pre_stored = << >>
    /\ objects # << >>
    /\ \A k \in DOMAIN objects :
         /\ heap[objects[k]].label \notin ConfiguredLabels(self)
         /\ object_in_polygon(_camera_resolution[self], heap[objects[k]], _coordinates[self])
    /\ published = << >>

\* The detections of the batch the loop of the call has gone through.
Visited == { k \in DOMAIN objects : k < i }

\* C6: a detection that passes its label's filter but lies outside the
\* polygon is not in the accepted list, and its relevant flag, false before
\* the call, is false after it.
C6_OutsideExcluded ==
    self \in Zones =>
        \A k \in Visited :
            LET o == heap[objects[k]]
            IN  ( /\ o.label \in DOMAIN _object_filters[self]
                  /\ filter_object(_object_filters[self][o.label], o)
                  /\ ~ object_in_polygon(_camera_resolution[self], o, _coordinates[self]) )
                => /\ \A n \in DOMAIN objects_in_zone : objects_in_zone[n] # objects[k]
                   /\ ~ pre_heap[objects[k]].relevant => ~ o.relevant

\* C6 happens: a completed call left out a detection that passed the filter
\* outside the polygon, its relevant flag still false.
C6_Witness ==
    /\ pc = "done"
    /\ \E k \in DOMAIN objects :
         LET o == heap[objects[k]]
         IN  /\ o.label \in DOMAIN _object_filters[self]
             /\ filter_object(_object_filters[self][o.label], o)
             /\ ~ object_in_polygon(_camera_resolution[self], o, _coordinates[self])
             /\ ~ o.relevant
             /\ \A n \in DOMAIN objects_in_zone : objects_in_zone[n] # objects[k]

\* C7 as stated: once the list is computed, every accepted object has
\* relevant true, and its trigger_recorder flag is true exactly when its
\* label's filter has trigger_recorder.
C7_AsStated ==
    ListComputed =>
        \A n \in DOMAIN objects_in_zone :
            LET o == heap[objects_in_zone[n]]
            IN  /\ o.relevant
                /\ o.trigger_recorder <=> _object_filters[self][o.label].trigger_recorder

\* C7, amended: once the list is computed, every accepted object has relevant
\* true, and its trigger_recorder flag is true exactly when its label's
\* filter has trigger_recorder or the flag was true before the call.
C7_TriggerRaised ==
    ListComputed =>
        \A n \in DOMAIN objects_in_zone :
            LET o == heap[objects_in_zone[n]]
            IN  /\ o.relevant
                /\ o.trigger_recorder <=>
                     ( \/ _object_filters[self][o.label].trigger_recorder
                       \/ pre_heap[objects_in_zone[n]].trigger_recorder )

\* C7 happens: a zone whose filter does not trigger accepted an object that
\* another zone had flagged, and the flag stayed.
C7_Witness ==
    /\ pc = "done"
    /\ \E n \in DOMAIN objects_in_zone :
         LET o == heap[objects_in_zone[n]]
         IN  /\ ~ _object_filters[self][o.label].trigger_recorder
             /\ pre_heap[objects_in_zone[n]].trigger_recorder
             /\ o.trigger_recorder

\* C8 as stated: a completed call returns the accepted list.
C8_AsStated ==
    pc = "done" => ret = [kind |-> "list", value |-> objects_in_zone]

\* The place of object obj in the batch.
PlaceOf(obj) == CHOOSE k \in DOMAIN objects : objects[k] = obj

\* C8, amended: a completed call returns None; the accepted list, in batch
\* order, is the one handed to the setter, and the zone's objects_in_zone is
\* value-equal to it.
C8_ReturnsNone ==
    pc = "done" =>
        /\ ret = None
        /\ \A n \in DOMAIN objects_in_zone : \E k \in DOMAIN objects : objects[k] = objects_in_zone[n]
        /\ \A m, n \in DOMAIN objects_in_zone :
             m < n => PlaceOf(objects_in_zone[m]) < PlaceOf(objects_in_zone[n])
        /\ last[self] = [computed |-> TRUE, accepted |-> ValuesOf(heap, objects_in_zone)]
        /\ ValuesOf(heap, _objects_in_zone[self]) = ValuesOf(heap, objects_in_zone)

\* C8 happens: a call that accepted two detections returned.
C8_Witness ==
    /\ pc = "done"
    /\ ret = None
    /\ Len(objects_in_zone) = 2

\* C9: no step changes the polygon, the filter mapping, the camera
\* resolution, the camera or the name of any zone.
C9_ConfigFixed == [][config' = config]_vars

\* C9 happens: after a call that evaluated a batch, stored its list and
\* published it, every zone has the fields it was constructed with.
C9_Witness ==
    /\ pc = "done"
    /\ objects # << >>
    /\ Len(published) = 1
    /\ \A z \in Zones :
         /\ _coordinates[z] = generate_numpy_from_coordinates(zone_config[z].coordinates)
         /\ DOMAIN _object_filters[z] = ConfiguredLabels(z)
         /\ _camera_resolution[z] = camera_config.resolution
         /\ _name[z] = zone_config[z].name

\* C10: the lookups of a call go through the batch in order, one per
\* detection; the filter test is invoked only right after a lookup of the
\* same detection found a filter, the containment test only right after the
\* filter test of the same detection answered true; a lookup that finds
\* nothing and a filter test that answers false are followed by the next
\* detection's lookup.
C10_Order ==
    LET IsGet(c) == c.what = "get"
        gets == SelectSeq(calls, IsGet)
    IN  /\ [k \in 1 .. Len(gets) |-> gets[k].obj] = SubSeq(objects, 1, Len(gets))
        /\ \A p \in DOMAIN calls :
             LET c == calls[p]
                 o == heap[c.obj]
             IN  /\ c.what = "get" =>
                      (c.answer = "None" <=> o.label \notin ConfiguredLabels(self))
                 /\ c.what = "filter_object" =>
                      /\ p > 1
                      /\ calls[p - 1] = Invocation("get", c.obj, "True")
                      /\ o.label \in ConfiguredLabels(self)
                 /\ c.what = "object_in_polygon" =>
                      /\ p > 1
                      /\ calls[p - 1] = Invocation("filter_object", c.obj, "True")
                      /\ o.label \in ConfiguredLabels(self)
                      /\ filter_object(_object_filters[self][o.label], o)
                 /\ (c.answer \in {"None", "False"} /\ p < Len(calls)) =>
                      calls[p + 1].what = "get"

\* C10 happens: in one completed call a filter test answered false and the
\* containment test was invoked for another detection.
C10_Witness ==
    /\ pc = "done"
    /\ \E p \in DOMAIN calls : calls[p].what = "filter_object" /\ calls[p].answer = "False"
    /\ \E p \in DOMAIN calls : calls[p].what = "object_in_polygon"

\* The two flags of an object.
Flags(o) == << o.relevant, o.trigger_recorder >>

\* C11: a detection of the batch that the call rejects (no filter for its
\* label, filter test failed, or outside the polygon) has after the call the
\* relevant and trigger_recorder flags it had before it; so has every object
\* that is not in the batch.
C11_RejectedUntouched ==
    self \in Zones =>
        /\ \A k \in Visited :
             ~ Qualifies(self, objects[k]) =>
                Flags(heap[objects[k]]) = Flags(pre_heap[objects[k]])
        /\ \A id \in DOMAIN heap :
             (\A k \in DOMAIN objects : objects[k] # id) =>
                Flags(heap[id]) = Flags(pre_heap[id])

\* C11 happens: a completed call rejected a detection that another zone had
\* flagged, and both flags are still true.
C11_Witness ==
    /\ pc = "done"
    /\ \E k \in DOMAIN objects :
         /\ ~ Qualifies(self, objects[k])
         /\ pre_heap[objects[k]].relevant
         /\ pre_heap[objects[k]].trigger_recorder
         /\ Flags(heap[objects[k]]) = << TRUE, TRUE >>

\* A capability invoked by the call has failed.
Failed == \E p \in DOMAIN calls : calls[p].answer = "raise"

\* The call ended in the failure of a capability of its for loop.
RaisedInLoop == pc = "raised" /\ i <= Len(objects)

\* C12: a failure of filter_object or object_in_polygon on any detection of
\* the batch is not caught: it is the last thing the call does, filter_zone
\* returns nothing, the call has handed no event to dispatch_event, and
\* _objects_in_zone of the zone is the list it was at the call's entry.
C12_LoopFailure ==
    /\ Failed =>
          /\ RaisedInLoop
          /\ calls[Len(calls)].answer = "raise"
          /\ calls[Len(calls)].obj = objects[i]
          /\ \A p \in 1 .. Len(calls) - 1 : calls[p].answer # "raise"
    /\ RaisedInLoop =>
          /\ Failed
          /\ ret = Pending
          /\ published = << >>
          /\ _objects_in_zone[self] = pre_stored

\* C12 happens: a capability failed on the second detection after the first
\* had been accepted, so that the list under construction differed from the
\* stored one.
C12_Witness ==
    /\ RaisedInLoop
    /\ i = 2
    /\ objects_in_zone # << >>
    /\ ~ ListEq(heap, objects_in_zone, pre_stored)
    /\ calls[Len(calls)].what = "object_in_polygon"

\* The call ended in the failure of dispatch_event.
RaisedInDispatch == pc = "raised" /\ i > Len(objects)

\* The latest event the zone handed to dispatch_event failed there, and the
\* call in progress has computed a list equal to the one that event carried.
SameAsFailed ==
    /\ pc = "for"
    /\ i > Len(objects)
    /\ announced[self].any
    /\ announced[self].failed
    /\ announced[self].objects = ValuesOf(heap, objects_in_zone)

\* C13: when dispatch_event fails, the call ends there with nothing returned,
\* one event handed over and _objects_in_zone already the new, changed list;
\* and a later call of the zone that computes a list equal to the one whose
\* dispatch failed returns without storing or handing over anything.
C13_NoRetry ==
    [][ /\ RaisedInDispatch' =>
              /\ pc = "dispatch_event"
              /\ ret' = Pending
              /\ Len(published') = 1
              /\ published'[1].data.objects = objects_in_zone'
              /\ _objects_in_zone'[self'] = objects_in_zone'
              /\ ~ ListEq(heap', objects_in_zone', pre_stored')
              /\ announced'[self'].failed
        /\ SameAsFailed =>
              /\ pc' = "done"
              /\ published' = << >>
              /\ _objects_in_zone' = _objects_in_zone
              /\ announced' = announced
      ]_vars

\* C13 happens: a call on a later batch computed a non-empty list of new
\* objects equal to the list whose dispatch had failed, and returned without
\* an event.
C13_Witness ==
    /\ pc = "done"
    /\ published = << >>
    /\ announced[self].failed
    /\ objects_in_zone # << >>
    /\ announced[self].objects = ValuesOf(heap, objects_in_zone)
    /\ \A k \in DOMAIN objects_in_zone : objects_in_zone[k] # _objects_in_zone[self][k]

\* The call treated its list as a change of the membership: it stored the
\* list and handed it to dispatch_event in one event.
TreatedAsChanged ==
    /\ _objects_in_zone[self] = objects_in_zone
    /\ pc = "dispatch_event" => published = << >>
    /\ pc \in {"done", "raised"} =>
          /\ Len(published) = 1
          /\ published[1].data.objects = objects_in_zone

\* The call treated its list as the membership it found: it kept the stored
\* list object and handed over no event.
TreatedAsUnchanged ==
    /\ _objects_in_zone[self] = pre_stored
    /\ published = << >>
    /\ pc = "done"

\* Lists a and b hold the same detections, up to their order.
SameDetections(a, b) ==
    /\ Len(a) = Len(b)
    /\ Range(ValuesOf(heap, a)) = Range(ValuesOf(heap, b))

\* C14: a new list whose objects are all other objects than the stored ones
\* but equal to them place by place is treated as unchanged (no event, the
\* stored list keeps the earlier objects); a new list of another length, or
\* with the same detections in another order, is treated as changed.
C14_ValueEquality ==
    ListComputed =>
        /\ ( /\ Len(objects_in_zone) = Len(pre_stored)
             /\ \A k \in DOMAIN objects_in_zone :
                  /\ objects_in_zone[k] # pre_stored[k]
                  /\ DetEq(heap[objects_in_zone[k]], heap[pre_stored[k]]) )
           => TreatedAsUnchanged
        /\ Len(objects_in_zone) # Len(pre_stored) => TreatedAsChanged
        /\ ( /\ SameDetections(objects_in_zone, pre_stored)
             /\ ValuesOf(heap, objects_in_zone) # ValuesOf(heap, pre_stored) )
           => TreatedAsChanged

\* C14 happens: a completed call found the two detections of the stored list
\* in the other order and published the new list.
C14_Witness ==
    /\ pc = "done"
    /\ Len(objects_in_zone) = 2
    /\ SameDetections(objects_in_zone, pre_stored)
    /\ ValuesOf(heap, objects_in_zone) # ValuesOf(heap, pre_stored)
    /\ Len(published) = 1

\* The detections carried by the event the setter is about to hand over.
Carried == ValuesOf(heap, Event(self, shared_frame, objects_in_zone).data.objects)

\* C15: an event a zone hands to dispatch_event carries a list that is not
\* equal to the list of the event the zone handed over before it, and the
\* first event a zone hands over carries a non-empty list.
C15_NoRepeat ==
    /\ pc = "dispatch_event" =>
          /\ announced[self].any => Carried # announced[self].objects
          /\ ~ announced[self].any => Carried # << >>
    /\ (pc \in {"done", "raised"} /\ published # << >>) =>
          announced[self] = Handed(published[Len(published)], pc = "raised")

\* C15 happens: a completed call published a non-empty list for a zone whose
\* event before carried another non-empty list.
C15_Witness ==
    /\ pc = "done"
    /\ Len(published) = 1
    /\ published[1].data.objects # << >>
    /\ pre_stored # << >>
    /\ announced[self].objects # ValuesOf(heap, pre_stored)

\* The zones whose loop has got through place k of the current batch and
\* accepted the detection there.
Accepting(k) ==
    { z \in Zones : progress[z] >= k /\ Qualifies(z, objects[k]) }

\* The filter of zone z that matches the detection at place k.
Matching(z, k) == _object_filters[z][heap[objects[k]].label]

\* C16: a call lowers no flag of any object; a flag of a detection of the
\* batch is true after a call iff it was true before the call or the call
\* accepted the detection (for trigger_recorder: and the matching filter
\* triggers the recorder); and whichever zones have evaluated the batch, in
\* whatever order, relevant is true iff one of them accepted the detection
\* and trigger_recorder iff the matching filter of one that accepted it
\* triggers the recorder.
C16_OnlyRaises ==
    /\ \A id \in DOMAIN heap :
          /\ pre_heap[id].relevant => heap[id].relevant
          /\ pre_heap[id].trigger_recorder => heap[id].trigger_recorder
    /\ self \in Zones =>
          \A k \in DOMAIN objects :
             LET accepted == k \in Visited /\ Qualifies(self, objects[k])
             IN  /\ heap[objects[k]].relevant <=>
                        (pre_heap[objects[k]].relevant \/ accepted)
                 /\ heap[objects[k]].trigger_recorder <=>
                        \/ pre_heap[objects[k]].trigger_recorder
                        \/ accepted /\ Matching(self, k).trigger_recorder
    /\ \A k \in DOMAIN objects :
          /\ heap[objects[k]].relevant <=> Accepting(k) # {}
          /\ heap[objects[k]].trigger_recorder <=>
                \E z \in Accepting(k) : Matching(z, k).trigger_recorder

\* C16 happens: both zones have evaluated the whole batch, the zone whose
\* filter does not trigger the recorder last, and a detection both accepted
\* still has the trigger_recorder flag the other zone raised.
C16_Witness ==
    /\ pc = "done"
    /\ self = "zoneA"
    /\ Len(objects) > 1
    /\ \A z \in Zones : progress[z] = Len(objects)
    /\ \E k \in DOMAIN objects :
         /\ Accepting(k) = Zones
         /\ ~ Matching("zoneA", k).trigger_recorder
         /\ pre_heap[objects[k]].trigger_recorder
         /\ heap[objects[k]].trigger_recorder

====
